---- MODULE Spec2Model ----
(***************************************************************************)
(* Model of tabor_settings_fix.py: the SettingBytes record codec and       *)
(* locate_and_modify_player_settings, driven by main (read the save file,  *)
(* patch, back up and write back when a buffer is returned).               *)
(*                                                                         *)
(* A str is a sequence of Unicode code points, a bytes object a sequence   *)
(* of integers in 0..255.  A Python value is a record [t, n, s]: t is the  *)
(* Python type, n the number of a bool/int/float, s the content of a       *)
(* str/bytes.  A computation that may raise yields [err, bytes]: err is    *)
(* "none" or the exception's class.                                        *)
(***************************************************************************)
EXTENDS Integers, Sequences, FiniteSets, TLC

VARIABLES
    disk,             \* content of the newest PlayerSettings*.sav file
    backups,          \* the .bak copies main has made, oldest first
    settings,         \* PlayerSettings.json: the request, in iteration order
    runs,             \* how many times main has been started
    pc,               \* where main is
    data,             \* locate_and_modify_player_settings: its argument
    modified_data,    \* its bytearray
    file_modified,    \* its flag
    insertion_index,  \* its insertion index
    i,                \* 1-based position of the next settings item
    result,           \* what the call gave main
    enc_in,           \* codec alone: the arguments of SettingBytes(...)
    enc_out           \* codec alone: the outcome of SettingBytes(...)

vars == <<disk, backups, settings, runs, pc, data, modified_data, file_modified,
          insertion_index, i, result, enc_in, enc_out>>

----------------------------------------------------------------------------
(* Bounds of the model *)

MaxSettings == 2    \* items in one request
MaxRuns == 2        \* runs of main
MaxStrLen == 1      \* code points of a string value given to the codec

----------------------------------------------------------------------------
(* Python values and outcomes *)

ByteRange == 256    \* bytes([x]) needs x in range(0, 256)

PyBool(b) == [t |-> "bool", n |-> IF b THEN 1 ELSE 0, s |-> <<>>]
PyInt(k) == [t |-> "int", n |-> k, s |-> <<>>]
PyFloat(k) == [t |-> "float", n |-> k, s |-> <<>>]
PyStr(cps) == [t |-> "str", n |-> 0, s |-> cps]
PyBytesVal(bs) == [t |-> "bytes", n |-> 0, s |-> bs]
PyNone == [t |-> "NoneType", n |-> 0, s |-> <<>>]

Ok(bs) == [err |-> "none", bytes |-> bs]
Raise(e) == [err |-> e, bytes |-> <<>>]

Rep(n, b) == [k \in 1..n |-> b]

\* a == b for a Python value a and a bool b: bool is an int, so 1 == True
PyEqBool(value, b) ==
    /\ value.t \in {"bool", "int", "float"}
    /\ value.n = (IF b THEN 1 ELSE 0)

\* str.encode('utf-8'); lone surrogates are refused
IsSurrogate(c) == c >= 55296 /\ c <= 57343

Encodable(cps) == \A k \in 1..Len(cps) : ~IsSurrogate(cps[k])

EncodeCp(c) ==
    IF c < 128 THEN <<c>>
    ELSE IF c < 2048 THEN <<192 + (c \div 64), 128 + (c % 64)>>
    ELSE IF c < 65536
         THEN <<224 + (c \div 4096), 128 + ((c \div 64) % 64), 128 + (c % 64)>>
    ELSE <<240 + (c \div 262144), 128 + ((c \div 4096) % 64),
           128 + ((c \div 64) % 64), 128 + (c % 64)>>

RECURSIVE Utf8(_)
Utf8(cps) ==
    IF \A k \in 1..Len(cps) : cps[k] < 128 THEN cps
    ELSE IF Len(cps) = 1 THEN EncodeCp(cps[1])
    ELSE LET half == Len(cps) \div 2
         IN  Utf8(SubSeq(cps, 1, half)) \o Utf8(SubSeq(cps, half + 1, Len(cps)))

\* bytes([x0, x1, ...]): ValueError unless every x is in range(0, 256)
BytesOfWrapping(xs) == Ok([k \in 1..Len(xs) |-> xs[k] % ByteRange])

BytesOf(xs) ==
    IF \A k \in 1..Len(xs) : xs[k] >= 0 /\ xs[k] < ByteRange
    THEN Ok(xs)
    ELSE Raise("ValueError")

\* bytes.find(sub): the lowest 0-based offset of sub in buf, or -1
MatchesAt(buf, sub, off) ==
    /\ off + Len(sub) <= Len(buf)
    /\ \A k \in 1..Len(sub) : buf[off + k] = sub[k]

FindLast(buf, sub) ==
    LET hits == {off \in 0..(Len(buf) - Len(sub)) : MatchesAt(buf, sub, off)}
    IN  IF hits = {} THEN -1
        ELSE CHOOSE off \in hits : \A other \in hits : other <= off

Find(buf, sub) ==
    LET hits == {off \in 0..(Len(buf) - Len(sub)) : MatchesAt(buf, sub, off)}
    IN  IF hits = {} THEN -1
        ELSE CHOOSE off \in hits : \A other \in hits : off <= other

\* buf[at:at] = rec on a bytearray; a slice bound past the end is the end
SliceAppend(buf, at, rec) == buf \o rec

SliceOverwrite(buf, at, rec) ==
    LET p == IF at > Len(buf) THEN Len(buf) ELSE at
    IN  SubSeq(buf, 1, p) \o rec \o SubSeq(buf, p + 2, Len(buf))

SliceInsert(buf, at, rec) ==
    LET p == IF at > Len(buf) THEN Len(buf) ELSE at
    IN  SubSeq(buf, 1, p) \o rec \o SubSeq(buf, p + 1, Len(buf))

----------------------------------------------------------------------------
(* Program constants *)

bFullBodyIK == <<98, 70, 117, 108, 108, 66, 111, 100, 121, 73, 75>>
bHoldCrouchToOpenMenu ==
    <<98, 72, 111, 108, 100, 67, 114, 111, 117, 99, 104, 84, 111, 79, 112,
      101, 110, 77, 101, 110, 117>>
bUsingPhysicalGunstock ==
    <<98, 85, 115, 105, 110, 103, 80, 104, 121, 115, 105, 99, 97, 108, 71,
      117, 110, 115, 116, 111, 99, 107>>

DEFAULT_SETTINGS ==
    (bFullBodyIK :> TRUE) @@ (bHoldCrouchToOpenMenu :> TRUE)
        @@ (bUsingPhysicalGunstock :> FALSE)

\* 'BP_Ghosts_SettingsSave_C'.encode('utf-8') + b'\x00'
data_anchor ==
    <<66, 80, 95, 71, 104, 111, 115, 116, 115, 95, 83, 101, 116, 116, 105,
      110, 103, 115, 83, 97, 118, 101, 95, 67>> \o <<0>>

----------------------------------------------------------------------------
(* class SettingBytes *)

ComputeValueTruthy(value) ==
    IF value.t \in {"int", "bool"}
    THEN BytesOf(<<IF value.n = 0 THEN 0 ELSE 1>>)
    ELSE IF value.t = "str"
         THEN IF Encodable(value.s) THEN Ok(Utf8(value.s))
              ELSE Raise("UnicodeEncodeError")
    ELSE IF value.t = "bytes" THEN Ok(value.s)
    ELSE Raise("TypeError")

\* SettingBytes._compute_value
ComputeValue(value) ==
    IF value.t \in {"int", "bool"} THEN BytesOf(<<value.n>>)
    ELSE IF value.t = "str"
         THEN IF Encodable(value.s) THEN Ok(Utf8(value.s))
              ELSE Raise("UnicodeEncodeError")
    ELSE IF value.t = "bytes" THEN Ok(value.s)
    ELSE Raise("TypeError")

\* bytes([len(name), 0, 0, 0])
LengthHeaderWrapping(name) == BytesOfWrapping(<<Len(name), 0, 0, 0>>)

LengthHeader(name) == BytesOf(<<Len(name), 0, 0, 0>>)

\* self._padding = bytes([0] * 8)
Padding == Rep(8, 0)

\* SettingBytes(key, data_type, value).bytes, or the exception __init__ raises
SettingBytes(key, data_type, value) ==
    IF ~Encodable(key) \/ ~Encodable(data_type) THEN Raise("UnicodeEncodeError")
    ELSE
    LET self_key == Utf8(key) \o <<0>>
        self_data_type == Utf8(data_type) \o <<0>>
        header == LengthHeader(self_key)
        type_metadata == LengthHeader(self_data_type)
        self_value == ComputeValue(value)
    IN  IF header.err # "none" THEN header
        ELSE IF type_metadata.err # "none" THEN type_metadata
        ELSE IF self_value.err # "none" THEN self_value
        ELSE Ok(header.bytes \o self_key \o type_metadata.bytes
                \o self_data_type \o Padding \o self_value.bytes \o <<0>>)

----------------------------------------------------------------------------
(* locate_and_modify_player_settings *)

NotRun == [kind |-> "pending", bytes |-> <<>>, err |-> "none"]
ReturnNone == [kind |-> "None", bytes |-> <<>>, err |-> "none"]
ReturnBytes(bs) == [kind |-> "bytes", bytes |-> bs, err |-> "none"]
Raised(e) == [kind |-> "raise", bytes |-> <<>>, err |-> e]

\* data.find(data_anchor) + len(data_anchor)
InsertionIndexNoTerminator(buf) == Find(buf, data_anchor) + Len(data_anchor) - 1

InsertionIndexLast(buf) == FindLast(buf, data_anchor) + Len(data_anchor)

InsertionIndex(buf) == Find(buf, data_anchor) + Len(data_anchor)

\* value != DEFAULT_SETTINGS[key]
DiffersFromDefault(key, value) == ~PyEqBool(value, DEFAULT_SETTINGS[key])

\* modified_data[insertion_index:insertion_index] = setting_bytes.bytes
InsertRecordAppended(buf, at, rec) == SliceAppend(buf, at, rec)

InsertRecordOverwriting(buf, at, rec) == SliceOverwrite(buf, at, rec)

InsertRecord(buf, at, rec) == SliceInsert(buf, at, rec)

\* One pass of the for loop over settings.items(): what it leaves in
\* modified_data and file_modified, and the exception it raises, if any.
LoopStepLazy(buf, md, fm, at, item) ==
    LET same == [err |-> "none", modified_data |-> md, file_modified |-> fm]
        key_index == Find(buf, Utf8(item.key) \o <<0>>)
        setting_bytes == SettingBytes(item.key, item.type, item.value)
    IN  IF key_index # -1 THEN same
        ELSE IF setting_bytes.err # "none"
             THEN [same EXCEPT !.err = setting_bytes.err]
        ELSE IF item.key \notin DOMAIN DEFAULT_SETTINGS
             THEN [same EXCEPT !.err = "KeyError"]
        ELSE IF DiffersFromDefault(item.key, item.value)
             THEN [err |-> "none",
                   modified_data |-> InsertRecord(md, at, setting_bytes.bytes),
                   file_modified |-> TRUE]
        ELSE same

LoopStepEager(buf, md, fm, at, item) ==
    LET same == [err |-> "none", modified_data |-> md, file_modified |-> fm]
        key_index == Find(buf, Utf8(item.key) \o <<0>>)
        setting_bytes == SettingBytes(item.key, item.type, item.value)
    IN  IF setting_bytes.err # "none"
             THEN [same EXCEPT !.err = setting_bytes.err]
        ELSE IF item.key \notin DOMAIN DEFAULT_SETTINGS
             THEN [same EXCEPT !.err = "KeyError"]
        ELSE IF key_index = -1 /\ DiffersFromDefault(item.key, item.value)
             THEN [err |-> "none",
                   modified_data |-> InsertRecord(md, at, setting_bytes.bytes),
                   file_modified |-> TRUE]
        ELSE same

LoopStep(buf, md, fm, at, item) ==
    LET same == [err |-> "none", modified_data |-> md, file_modified |-> fm]
    IN  IF ~Encodable(item.key)
        THEN [same EXCEPT !.err = "UnicodeEncodeError"]
        ELSE
        LET key_bytes == Utf8(item.key) \o <<0>>
            key_index == Find(buf, key_bytes)
            setting_bytes == SettingBytes(item.key, item.type, item.value)
        IN  IF setting_bytes.err # "none"
            THEN [same EXCEPT !.err = setting_bytes.err]
            ELSE IF key_index = -1
                 THEN IF item.key \notin DOMAIN DEFAULT_SETTINGS
                      THEN [same EXCEPT !.err = "KeyError"]
                      ELSE IF DiffersFromDefault(item.key, item.value)
                           THEN [err |-> "none",
                                 modified_data |->
                                     InsertRecord(md, at, setting_bytes.bytes),
                                 file_modified |-> TRUE]
                           ELSE same
                 ELSE same

\* return bytes(modified_data) if file_modified else None
ReturnValueCopy(md, fm) == ReturnBytes(md)

ReturnValue(md, fm) == IF fm THEN ReturnBytes(md) ELSE ReturnNone

\* main: if modified_data:
Truthy(r) == r.kind = "bytes" /\ Len(r.bytes) > 0

----------------------------------------------------------------------------
(* Inputs *)

bNope == <<98, 78, 111, 112, 101>>
BoolProperty == <<66, 111, 111, 108, 80, 114, 111, 112, 101, 114, 116, 121>>
Filler == Rep(20, 120)

Chunks == {data_anchor, Utf8(bFullBodyIK) \o <<0>>, Utf8(bNope) \o <<0>>, Filler}

Pieces == {<<>>} \cup Chunks
Buffers == {a \o b : a, b \in Pieces}

ReqKeys == {bFullBodyIK, bUsingPhysicalGunstock, bNope}
ReqValues == {PyBool(TRUE), PyBool(FALSE), PyInt(1), PyStr(<<49>>), PyNone}
Items == [key : ReqKeys, type : {BoolProperty}, value : ReqValues]

Requests ==
    {r \in UNION {[1..n -> Items] : n \in 0..MaxSettings} :
        \A a, b \in 1..Len(r) : a # b => r[a].key # r[b].key}

\* what the codec alone is given
Alphabet == {49, 233, 8364, 128512, 55296}
Strings == UNION {[1..n -> Alphabet] : n \in 0..MaxStrLen}
CodecKeys ==
    {bFullBodyIK, bUsingPhysicalGunstock, <<233>>, <<55296>>,
     Rep(ByteRange - 2, 97), Rep(ByteRange - 1, 97),
     Rep((ByteRange - 2) \div 2, 233), Rep(ByteRange \div 2, 233)}
CodecTypes == {BoolProperty, <<>>, Rep(ByteRange - 2, 84), Rep(ByteRange - 1, 84)}
CodecValues ==
    {PyBool(TRUE), PyBool(FALSE), PyNone, PyFloat(1)}
        \cup {PyInt(k) : k \in {-1, 0, 1, 2, ByteRange - 1, ByteRange}}
        \cup {PyStr(cps) : cps \in Strings}
        \cup {PyBytesVal(bs) : bs \in {<<>>, <<0>>, <<255, 0>>}}
CodecInputs == [key : CodecKeys, type : CodecTypes, value : CodecValues]

NoItem == [key |-> <<>>, type |-> <<>>, value |-> PyNone]
EncNotRun == [err |-> "pending", bytes |-> <<>>]

----------------------------------------------------------------------------
(* main and the call it makes *)

Init ==
    /\ disk \in Buffers
    /\ settings \in Requests
    /\ backups = <<>>
    /\ runs = 0
    /\ pc = "main"
    /\ data = <<>>
    /\ modified_data = <<>>
    /\ file_modified = FALSE
    /\ insertion_index = 0
    /\ i = 0
    /\ result = NotRun
    /\ enc_in = NoItem
    /\ enc_out = EncNotRun

\* main, lines 125-137: read the file and the request, call the patcher.
\* The script is started again only after a run that rewrote the file: a
\* run started on the same file with the same request repeats the last one.
MainRead ==
    /\ pc = "main" \/ (pc = "done" /\ Truthy(result))
    /\ runs < MaxRuns
    /\ runs' = runs + 1
    /\ data' = disk
    /\ modified_data' = <<>>
    /\ file_modified' = FALSE
    /\ insertion_index' = 0
    /\ i' = 0
    /\ result' = NotRun
    /\ pc' = "call"
    /\ UNCHANGED <<disk, backups, settings, enc_in, enc_out>>

\* lines 98-101
PatchBegin ==
    /\ pc = "call"
    /\ file_modified' = FALSE
    /\ modified_data' = data
    /\ insertion_index' = InsertionIndex(data)
    /\ i' = 1
    /\ pc' = "loop"
    /\ UNCHANGED <<disk, backups, settings, runs, data, result, enc_in, enc_out>>

\* lines 103-120: one item of settings.items(); an exception ends main
LoopBody ==
    /\ pc = "loop"
    /\ i <= Len(settings)
    /\ LET out == LoopStep(data, modified_data, file_modified, insertion_index,
                           settings[i])
       IN  /\ modified_data' = out.modified_data
           /\ file_modified' = out.file_modified
           /\ IF out.err = "none"
              THEN /\ i' = i + 1
                   /\ pc' = "loop"
                   /\ result' = result
              ELSE /\ i' = i
                   /\ pc' = "raised"
                   /\ result' = Raised(out.err)
    /\ UNCHANGED <<disk, backups, settings, runs, data, insertion_index,
                   enc_in, enc_out>>

\* line 122
PatchReturn ==
    /\ pc = "loop"
    /\ i > Len(settings)
    /\ result' = ReturnValue(modified_data, file_modified)
    /\ pc' = "returned"
    /\ UNCHANGED <<disk, backups, settings, runs, data, modified_data,
                   file_modified, insertion_index, i, enc_in, enc_out>>

\* main, lines 139-146: back the file up, then overwrite it
MainWrite ==
    /\ pc = "returned"
    /\ Truthy(result)
    /\ backups' = Append(backups, disk)
    /\ disk' = result.bytes
    /\ pc' = "done"
    /\ UNCHANGED <<settings, runs, data, modified_data, file_modified,
                   insertion_index, i, result, enc_in, enc_out>>

\* main, line 139: nothing to write
MainSkip ==
    /\ pc = "returned"
    /\ ~Truthy(result)
    /\ pc' = "done"
    /\ UNCHANGED <<disk, backups, settings, runs, data, modified_data,
                   file_modified, insertion_index, i, result, enc_in, enc_out>>

Next ==
    \/ MainRead
    \/ PatchBegin
    \/ LoopBody
    \/ PatchReturn
    \/ MainWrite
    \/ MainSkip

Spec == Init /\ [][Next]_vars

----------------------------------------------------------------------------
(* The codec on its own: one construction of SettingBytes(key, type, value) *)

InitCodec ==
    /\ enc_in \in CodecInputs
    /\ enc_out = EncNotRun
    /\ disk = <<>>
    /\ settings = <<>>
    /\ backups = <<>>
    /\ runs = 0
    /\ pc = "codec"
    /\ data = <<>>
    /\ modified_data = <<>>
    /\ file_modified = FALSE
    /\ insertion_index = 0
    /\ i = 0
    /\ result = NotRun

\* lines 31-51
Encode ==
    /\ pc = "codec"
    /\ enc_out = EncNotRun
    /\ enc_out' = SettingBytes(enc_in.key, enc_in.type, enc_in.value)
    /\ UNCHANGED <<disk, backups, settings, runs, pc, data, modified_data,
                   file_modified, insertion_index, i, result, enc_in>>

NextCodec == Encode

SpecCodec == InitCodec /\ [][NextCodec]_vars

----------------------------------------------------------------------------
(* Vocabulary of the properties *)

KeyBytes(item) == Utf8(item.key) \o <<0>>
Present(buf, item) == Find(buf, KeyBytes(item)) # -1
HasAnchor(buf) == Find(buf, data_anchor) # -1
AfterAnchor(buf) == Find(buf, data_anchor) + Len(data_anchor)
RecordOf(item) == SettingBytes(item.key, item.type, item.value).bytes
Supported(value) ==
    \/ value.t = "bool"
    \/ value.t = "int" /\ value.n >= 0 /\ value.n <= 255
    \/ value.t = "str" /\ Encodable(value.s)
    \/ value.t = "bytes"
AtDefault(item) ==
    /\ item.key \in DOMAIN DEFAULT_SETTINGS
    /\ PyEqBool(item.value, DEFAULT_SETTINGS[item.key])

\* the item is absent from buf and asked for at a value other than its default
Wanted(buf, item) ==
    /\ ~Present(buf, item)
    /\ item.key \in DOMAIN DEFAULT_SETTINGS
    /\ ~PyEqBool(item.value, DEFAULT_SETTINGS[item.key])
WantedIdx == {j \in 1..Len(settings) : Wanted(data, settings[j])}

\* total length of the records of the wanted items at positions j, j+1, ...
RECURSIVE WantedLenFrom(_, _, _)
WantedLenFrom(buf, req, j) ==
    IF j > Len(req) THEN 0
    ELSE (IF Wanted(buf, req[j]) THEN Len(RecordOf(req[j])) ELSE 0)
             + WantedLenFrom(buf, req, j + 1)

\* the records of the wanted items among the first j, the last of them first
RECURSIVE ReverseBlock(_, _, _)
ReverseBlock(buf, req, j) ==
    IF j = 0 THEN <<>>
    ELSE (IF Wanted(buf, req[j]) THEN RecordOf(req[j]) ELSE <<>>)
             \o ReverseBlock(buf, req, j - 1)

Smaller(a, b) == IF a < b THEN a ELSE b
Returned == pc \in {"returned", "done"}
CallEnded == pc \in {"returned", "done", "raised"}
EncDone == pc = "codec" /\ enc_out # EncNotRun
NameLen(name) == Len(Utf8(name)) + 1
NamesFit(in) ==
    /\ Encodable(in.key) /\ NameLen(in.key) < ByteRange
    /\ Encodable(in.type) /\ NameLen(in.type) < ByteRange
Oversized(in) ==
    /\ Encodable(in.key) /\ Encodable(in.type)
    /\ (NameLen(in.key) >= ByteRange \/ NameLen(in.type) >= ByteRange)
ValueBytes(value) ==
    IF value.t \in {"bool", "int"} THEN <<value.n>>
    ELSE IF value.t = "str" THEN Utf8(value.s) ELSE value.s
GunstockExample ==
    <<23, 0, 0, 0>> \o bUsingPhysicalGunstock \o <<0>> \o <<13, 0, 0, 0>>
        \o BoolProperty \o <<0>> \o <<0, 0, 0, 0, 0, 0, 0, 0>> \o <<1>> \o <<0>>

----------------------------------------------------------------------------
(* C1 *)

\* C1: for a key and a type tag whose encoded length with the terminator is
\* below 256 and a value that is a boolean, an integer in 0..255, a string or
\* a byte sequence, the record is [len(key)+1,0,0,0], key, 0,
\* [len(type)+1,0,0,0], type, 0, eight zero bytes, the value bytes, 0; the
\* value bytes are one byte 0/1 for a boolean, the integer for an integer,
\* the UTF-8 bytes for a string, the bytes themselves for a byte sequence.
\* (bUsingPhysicalGunstock, BoolProperty, true) gives the docstring's bytes,
\* with header bytes 23 and 13 and value byte 1.
C1_RecordLayout ==
    (EncDone /\ NamesFit(enc_in) /\ Supported(enc_in.value)) =>
        LET k == Utf8(enc_in.key)
            ty == Utf8(enc_in.type)
            v == ValueBytes(enc_in.value)
            r == enc_out.bytes
        IN  /\ enc_out.err = "none"
            /\ Len(r) = 4 + Len(k) + 1 + 4 + Len(ty) + 1 + 8 + Len(v) + 1
            /\ SubSeq(r, 1, 4) = <<Len(k) + 1, 0, 0, 0>>
            /\ SubSeq(r, 5, 4 + Len(k)) = k
            /\ r[5 + Len(k)] = 0
            /\ SubSeq(r, 6 + Len(k), 9 + Len(k)) = <<Len(ty) + 1, 0, 0, 0>>
            /\ SubSeq(r, 10 + Len(k), 9 + Len(k) + Len(ty)) = ty
            /\ r[10 + Len(k) + Len(ty)] = 0
            /\ \A z \in 1..8 : r[10 + Len(k) + Len(ty) + z] = 0
            /\ SubSeq(r, Len(r) - Len(v), Len(r) - 1) = v
            /\ r[Len(r)] = 0
            /\ enc_in.value.t = "bool" => v \in {<<0>>, <<1>>}
            /\ (/\ enc_in.key = bUsingPhysicalGunstock
                /\ enc_in.type = BoolProperty
                /\ enc_in.value = PyBool(TRUE))
                   => r = GunstockExample /\ r[1] = 23 /\ r[28] = 13 /\ r[53] = 1

C1_Witness ==
    /\ EncDone
    /\ enc_in.key = bUsingPhysicalGunstock
    /\ enc_in.type = BoolProperty
    /\ enc_in.value = PyBool(TRUE)
    /\ enc_out.err = "none"

----------------------------------------------------------------------------
(* C6 *)

\* C6, as claimed: for a key or type tag whose encoded length with the
\* terminator is 256 or more the codec does not fail; it produces a record
\* whose length header differs from the real length.
C6_Original ==
    (EncDone /\ Oversized(enc_in) /\ Supported(enc_in.value)) =>
        /\ enc_out.err = "none"
        /\ \/ enc_out.bytes[1] # NameLen(enc_in.key)
           \/ enc_out.bytes[5 + NameLen(enc_in.key)] # NameLen(enc_in.type)

\* C6, amended: for a key or type tag whose encoded length with the
\* terminator is 256 or more the codec fails with ValueError when it builds
\* the length header, and produces no record.
C6_OversizedRaises ==
    (EncDone /\ Oversized(enc_in)) =>
        enc_out.err = "ValueError" /\ enc_out.bytes = <<>>

C6_Witness ==
    /\ EncDone
    /\ Encodable(enc_in.key)
    /\ NameLen(enc_in.key) = ByteRange
    /\ NameLen(enc_in.type) < ByteRange
    /\ Supported(enc_in.value)
    /\ enc_out.err = "ValueError"

----------------------------------------------------------------------------
(* C2 *)

AllPresent == \A j \in 1..Len(settings) : Present(data, settings[j])
AllEncode ==
    \A j \in 1..Len(settings) :
        SettingBytes(settings[j].key, settings[j].type, settings[j].value).err
            = "none"

\* C2, as claimed: a setting whose key is in the buffer is never modified,
\* whatever value is asked for, and a call whose keys are all in the buffer
\* returns None and leaves the buffer untouched.
C2_Original ==
    (CallEnded /\ AllPresent) =>
        /\ pc # "raised"
        /\ result = ReturnNone
        /\ modified_data = data
        /\ disk = data

\* C2, amended: the loop pass of a setting whose key is in the buffer changes
\* nothing, whatever value is asked for; and a call whose keys are all in the
\* buffer and whose key, type and value the codec can encode (a boolean, an
\* integer in 0..255, a string or a byte sequence) returns None and leaves
\* the buffer untouched.  A value the codec refuses raises even so.
C2_PresentUntouched ==
    /\ [][(pc = "loop" /\ i <= Len(settings) /\ Present(data, settings[i]))
            => /\ modified_data' = modified_data
               /\ file_modified' = file_modified
               /\ disk' = disk
               /\ data' = data]_vars
    /\ []((CallEnded /\ AllPresent /\ AllEncode) =>
            /\ pc # "raised"
            /\ result = ReturnNone
            /\ modified_data = data
            /\ disk = data)

C2_Witness ==
    /\ pc = "returned"
    /\ Len(settings) = 2
    /\ AllPresent
    /\ result = ReturnNone
    /\ \E j \in 1..Len(settings) : ~AtDefault(settings[j])

----------------------------------------------------------------------------
(* C3 *)

NoInsertion ==
    \A j \in 1..Len(settings) :
        Present(data, settings[j]) \/ AtDefault(settings[j])

\* C3: a completed call returns None, not a copy of the input, exactly when
\* every requested setting is present in the buffer or absent and asked for
\* at its default; an absent setting asked for at its default adds nothing;
\* every other completed call returns a byte buffer.
C3_NoneIffNoInsertion ==
    Returned =>
        /\ result.kind \in {"None", "bytes"}
        /\ result = ReturnNone <=> NoInsertion
        /\ result.kind = "bytes" <=> WantedIdx # {}
        /\ result.kind = "bytes" =>
               Len(result.bytes) = Len(data) + WantedLenFrom(data, settings, 1)

C3_Witness ==
    /\ pc = "returned"
    /\ result = ReturnNone
    /\ \E j \in 1..Len(settings) :
           ~Present(data, settings[j]) /\ AtDefault(settings[j])

----------------------------------------------------------------------------
(* C4 *)

\* C4, as claimed: with the anchor in the buffer, for every setting that is
\* absent and asked for at a non-default value the returned buffer is longer
\* than the input by the length of that setting's record, and the record
\* starts right after the first occurrence of the anchor.
C4_Original ==
    (Returned /\ HasAnchor(data) /\ result.kind = "bytes") =>
        \A j \in WantedIdx :
            LET rec == RecordOf(settings[j])
                r == result.bytes
            IN  /\ Len(r) = Len(data) + Len(rec)
                /\ SubSeq(r, AfterAnchor(data) + 1, AfterAnchor(data) + Len(rec))
                       = rec

\* C4, amended: with the anchor in the buffer, the returned buffer is longer
\* than the input by the sum of the lengths of the records of the settings
\* that are absent and asked for at a non-default value, and each such
\* record starts at the offset right after the first occurrence of the
\* anchor plus the lengths of the records of the such settings later in the
\* request: at that offset itself for the last of them.
C4_RecordsAfterAnchor ==
    (Returned /\ HasAnchor(data) /\ result.kind = "bytes") =>
        LET r == result.bytes
        IN  /\ Len(r) = Len(data) + WantedLenFrom(data, settings, 1)
            /\ \A j \in WantedIdx :
                   LET rec == RecordOf(settings[j])
                       off == AfterAnchor(data)
                                  + WantedLenFrom(data, settings, j + 1)
                   IN  SubSeq(r, off + 1, off + Len(rec)) = rec

C4_Witness ==
    /\ pc = "returned"
    /\ Find(data, data_anchor) > 0
    /\ Cardinality(WantedIdx) = 2
    /\ result.kind = "bytes"

----------------------------------------------------------------------------
(* C5 *)

UnsupportedValue(item) == item.value.t \notin {"bool", "int", "str", "bytes"}
UnknownName(item) == item.key \notin DOMAIN DEFAULT_SETTINGS

\* C5, as claimed: when any requested setting has a value that is no
\* boolean, integer, string or byte sequence, or a name missing from the
\* default-settings table, the call raises wherever the setting sits, no
\* buffer reaches the caller, the input is unchanged and main writes nothing.
C5_Original ==
    (CallEnded /\ \E j \in 1..Len(settings) :
                     UnsupportedValue(settings[j]) \/ UnknownName(settings[j]))
        => /\ pc = "raised"
           /\ result.kind = "raise"
           /\ disk = data
           /\ Len(backups) < runs

\* C5, amended: when any requested setting has a value that is no boolean,
\* integer, string or byte sequence, or a name that is missing from the
\* default-settings table and whose key is absent from the buffer, the call
\* raises wherever the setting sits and whatever was inserted before, no
\* buffer reaches the caller, the input is unchanged and main writes nothing.
\* (A name missing from the table whose key is in the buffer is skipped like
\* any present key.)
C5_FatalAborts ==
    (CallEnded /\ \E j \in 1..Len(settings) :
                     \/ UnsupportedValue(settings[j])
                     \/ UnknownName(settings[j]) /\ ~Present(data, settings[j]))
        => /\ pc = "raised"
           /\ result.kind = "raise"
           /\ result.bytes = <<>>
           /\ disk = data
           /\ Len(backups) < runs

C5_Witness ==
    /\ pc = "raised"
    /\ file_modified
    /\ i = 2
    /\ UnknownName(settings[2])
    /\ ~UnsupportedValue(settings[2])
    /\ result = Raised("KeyError")
    /\ disk = data

----------------------------------------------------------------------------
(* C7 *)

\* C7: every insertion of a call is made at the one index computed from the
\* input buffer before the loop, so when that index lies in the buffer (as
\* it does whenever the anchor is there) the block right after the anchor is
\* exactly the records of the absent, non-default settings, in the reverse
\* of the request's iteration order.
C7_ReverseOrder ==
    /\ pc \in {"loop", "returned", "raised", "done"} =>
           insertion_index = AfterAnchor(data)
    /\ (Returned /\ result.kind = "bytes" /\ AfterAnchor(data) <= Len(data)) =>
           result.bytes =
               SubSeq(data, 1, AfterAnchor(data))
                   \o ReverseBlock(data, settings, Len(settings))
                   \o SubSeq(data, AfterAnchor(data) + 1, Len(data))

C7_Witness ==
    /\ pc = "returned"
    /\ HasAnchor(data)
    /\ Cardinality(WantedIdx) = 2
    /\ AfterAnchor(data) < Len(data)
    /\ \A j \in WantedIdx : \A l \in WantedIdx :
           j # l => RecordOf(settings[j]) # RecordOf(settings[l])

----------------------------------------------------------------------------
(* C8 *)

LastWanted == CHOOSE j \in WantedIdx : \A l \in WantedIdx : l <= j
Fatal(buf, item) ==
    \/ SettingBytes(item.key, item.type, item.value).err # "none"
    \/ UnknownName(item) /\ ~Present(buf, item)

\* C8, as claimed: in a buffer without the anchor a call that inserts does
\* not fail; the insertion offset is -1 + the anchor's length (= 24), the
\* record is spliced into the buffer at that offset and a buffer is returned.
C8_Original ==
    (Returned /\ ~HasAnchor(data) /\ WantedIdx # {}) =>
        LET rec == RecordOf(settings[LastWanted])
            r == result.bytes
        IN  /\ insertion_index = 24
            /\ result.kind = "bytes"
            /\ Len(r) >= 24 + Len(rec)
            /\ SubSeq(r, 25, 24 + Len(rec)) = rec

\* C8, amended: in a buffer without the anchor a call that inserts does not
\* fail for want of the anchor; the insertion index is -1 + the anchor's
\* length (= 24), each record is spliced into the working buffer at offset
\* min(24, length of the working buffer), that is at 24 in a buffer of 24
\* bytes or more and at its end in a shorter one, and a buffer is returned.
C8_NoAnchorOffset ==
    ~HasAnchor(data) =>
        /\ pc \in {"loop", "returned", "raised", "done"} =>
               insertion_index = Len(data_anchor) - 1 /\ insertion_index = 24
        /\ pc = "raised" => \E j \in 1..Len(settings) : Fatal(data, settings[j])
        /\ (pc \in {"loop", "returned", "raised", "done"} /\ i > 1
                /\ Wanted(data, settings[i - 1])) =>
               LET rec == RecordOf(settings[i - 1])
                   at == Smaller(24, Len(modified_data) - Len(rec))
               IN  /\ file_modified
                   /\ SubSeq(modified_data, at + 1, at + Len(rec)) = rec
        /\ (Returned /\ WantedIdx # {}) =>
               result = ReturnBytes(modified_data)

C8_Witness ==
    /\ pc = "returned"
    /\ ~HasAnchor(data)
    /\ data # <<>>
    /\ Len(data) < 24
    /\ WantedIdx # {}
    /\ result.kind = "bytes"
    /\ SubSeq(result.bytes, 1, Len(data)) = data

----------------------------------------------------------------------------
(* C9 *)

\* C9: a returned buffer differs from the input by insertion only: up to the
\* place of insertion (the insertion index, or the end of a shorter input)
\* it is the input, after the inserted block it is the rest of the input,
\* and it is longer than the input by the sum of the lengths of the inserted
\* records.
C9_InsertionOnly ==
    (Returned /\ result.kind = "bytes") =>
        LET at == Smaller(AfterAnchor(data), Len(data))
            total == WantedLenFrom(data, settings, 1)
            r == result.bytes
        IN  /\ total > 0
            /\ Len(r) = Len(data) + total
            /\ SubSeq(r, 1, at) = SubSeq(data, 1, at)
            /\ SubSeq(r, at + total + 1, Len(r)) = SubSeq(data, at + 1, Len(data))
            /\ SubSeq(r, 1, at) \o SubSeq(r, at + total + 1, Len(r)) = data

C9_Witness ==
    /\ pc = "returned"
    /\ result.kind = "bytes"
    /\ AfterAnchor(data) > 0
    /\ AfterAnchor(data) < Len(data)
    /\ Cardinality(WantedIdx) = 2

----------------------------------------------------------------------------
(* C10 *)

BoolRequest ==
    \A j \in 1..Len(settings) :
        /\ settings[j].key \in DOMAIN DEFAULT_SETTINGS
        /\ settings[j].type = BoolProperty
        /\ settings[j].value.t = "bool"

\* C10: patching is idempotent: for a request of boolean values of type
\* BoolProperty over the default-settings table, when a call has returned a
\* buffer (which main wrote and the next run reads back), the call on that
\* buffer with the same request returns None.
C10_Idempotent ==
    (runs >= 2 /\ backups # <<>> /\ data = disk /\ Returned /\ BoolRequest) =>
        result = ReturnNone

====
